---- MODULE Spec2Model ----
(***************************************************************************)
(* Model of filesystem.py: the MCP file-manager server.  The state is the  *)
(* file system the server works on, the process's working directory and    *)
(* start-up configuration, and, for every in-flight tool call, the         *)
(* position of the coroutine and the values of its local variables.        *)
(*                                                                         *)
(* The hard-coded root "F:\\Python Project" and the "\\" separator make    *)
(* the program a Windows program: on another platform validate_path        *)
(* rejects every path.  Paths are Windows paths, written as sequences of   *)
(* segments (<<"F:", "Python Project", "sub">> is F:\Python Project\sub),  *)
(* and the file operations have their Windows semantics.                   *)
(***************************************************************************)
EXTENDS Integers, Sequences, FiniteSets, TLC

VARIABLES
    fs,                   \* location -> entry, for the entries that exist
    cwd,                  \* the process's working directory
    allowed_directories,  \* the list built in __main__ from the command line
    uuidCtr,              \* how many uuid4() values were drawn so far
    proc,                 \* call context -> the coroutine's state
    observed              \* what an outside reader last saw at the final path

vars == <<fs, cwd, allowed_directories, uuidCtr, proc, observed>>

(***************************************************************************)
(* Bounds of the model.                                                    *)
(***************************************************************************)
MaxCalls == 1   \* tool calls issued per call context

Procs == {1, 2}

(***************************************************************************)
(* Paths (pathlib.Path on Windows, and the strings built from it).         *)
(***************************************************************************)
Drives == {"F:"}

\* The root validate_path compares against.
HardRoot == <<"F:", "Python Project">>

IsAbsolute(path) == path # <<>> /\ path[1] \in Drives

\* Path.absolute(): anchors a relative path at the working directory and
\* leaves ".." segments and links as they are.
PathAbsolute(wd, path) == IF IsAbsolute(path) THEN path ELSE wd \o path

\* PurePath.is_relative_to(other): other's parts are a prefix of path's.
IsRelativeTo(path, other) ==
    /\ Len(other) <= Len(path)
    /\ SubSeq(path, 1, Len(other)) = other

\* The location a path names once the operating system has folded its ".."
\* segments (Windows folds them lexically; ".." at the drive root stays there).
RECURSIVE Fold(_, _)
Fold(done, rest) ==
    IF rest = <<>> THEN done
    ELSE IF Head(rest) = ".."
         THEN Fold(IF Len(done) > 1 THEN SubSeq(done, 1, Len(done) - 1) ELSE done,
                   Tail(rest))
         ELSE Fold(Append(done, Head(rest)), Tail(rest))

Resolve(path) == Fold(<<>>, path)

\* os.path.abspath: absolute and normalized.
os_path_abspath(wd, path) == Resolve(PathAbsolute(wd, path))

Parent(loc) == SubSeq(loc, 1, Len(loc) - 1)

(***************************************************************************)
(* The file system.                                                        *)
(***************************************************************************)
Dir == [kind |-> "dir", data |-> <<>>, ro |-> FALSE]
File(data, ro) == [kind |-> "file", data |-> data, ro |-> ro]

Put(f, loc, entry) ==
    [q \in DOMAIN f \cup {loc} |-> IF q = loc THEN entry ELSE f[q]]

Drop(f, loc) == [q \in DOMAIN f \ {loc} |-> f[q]]

IsDir(f, loc) == loc \in DOMAIN f /\ f[loc].kind = "dir"
IsFile(f, loc) == loc \in DOMAIN f /\ f[loc].kind = "file"

\* What a location holds: the file's characters, or that nothing is there.
Absent == <<"<absent>">>
ContentAt(f, loc) == IF IsFile(f, loc) THEN f[loc].data ELSE Absent

\* os.path.exists
os_path_exists(f, path) == Resolve(path) \in DOMAIN f

\* A replace that is no replace: the source's characters are appended to what
\* the destination holds.
os_replace_appending(f, src, dst) ==
    LET s == Resolve(src)
        d == Resolve(dst)
    IN  IF s \notin DOMAIN f \/ ~IsDir(f, Parent(d))
            THEN [exc |-> "FileNotFoundError", fs |-> f]
        ELSE IF d \in DOMAIN f /\ (f[d].kind = "dir" \/ f[d].ro)
            THEN [exc |-> "PermissionError", fs |-> f]
        ELSE [exc |-> "",
              fs |-> Drop(Put(f, d, File((IF IsFile(f, d) THEN f[d].data ELSE <<>>)
                                         \o f[s].data, FALSE)), s)]

\* os.replace (MoveFileEx with MOVEFILE_REPLACE_EXISTING): one indivisible step.
\* A read-only or directory destination is refused with access denied.
os_replace(f, src, dst) ==
    LET s == Resolve(src)
        d == Resolve(dst)
    IN  IF s \notin DOMAIN f \/ ~IsDir(f, Parent(d))
            THEN [exc |-> "FileNotFoundError", fs |-> f]
        ELSE IF d \in DOMAIN f /\ (f[d].kind = "dir" \/ f[d].ro)
            THEN [exc |-> "PermissionError", fs |-> f]
        ELSE [exc |-> "", fs |-> Drop(Put(f, d, f[s]), s)]

\* os.rename on Windows (MoveFile): fails when the destination exists.
os_rename(f, src, dst) ==
    LET s == Resolve(src)
        d == Resolve(dst)
    IN  IF s \notin DOMAIN f \/ ~IsDir(f, Parent(d))
            THEN [exc |-> "FileNotFoundError", fs |-> f]
        ELSE IF d \in DOMAIN f
            THEN [exc |-> "FileExistsError", fs |-> f]
        ELSE [exc |-> "", fs |-> Drop(Put(f, d, f[s]), s)]

(***************************************************************************)
(* Text files: what open(..., "w", encoding="utf-8") stores and what       *)
(* open(..., "r") gives back.  Characters are "LF", "CR" and letters.      *)
(***************************************************************************)
\* Text-mode write with the default newline=None: every "\n" is stored as
\* os.linesep, which is "\r\n" here.
RECURSIVE TextWrite(_)
TextWrite(text) ==
    IF text = <<>> THEN <<>>
    ELSE (IF Head(text) = "LF" THEN <<"CR", "LF">> ELSE <<Head(text)>>)
         \o TextWrite(Tail(text))

\* Text-mode read with the default newline=None (universal newlines):
\* "\r\n" and a lone "\r" both come back as "\n".
RECURSIVE ReadText(_)
ReadText(data) ==
    IF data = <<>> THEN <<>>
    ELSE IF Head(data) = "CR"
         THEN IF Len(data) > 1 /\ data[2] = "LF"
              THEN <<"LF">> \o ReadText(Tail(Tail(data)))
              ELSE <<"LF">> \o ReadText(Tail(data))
         ELSE <<Head(data)>> \o ReadText(Tail(data))

(***************************************************************************)
(* The tool catalogue and the dispatcher's routing.                        *)
(***************************************************************************)
\* The names of the descriptors list_tools returns.
list_tools ==
    {"list_directories", "read_txt", "read_word_document", "read_pdf", "write_file"}

\* The match without its write_file case, as dispatch's docstring lists it.
Handler_without_write_file(name) ==
    CASE name = "list_directories" -> "list_directories"
      [] name = "read_txt" -> "read_txt"
      [] name = "read_word_document" -> "read_word_document"
      [] name = "read_pdf" -> "read_pdf"
      [] OTHER -> ""

\* dispatch's match statement: the handler a name is routed to ("" for case _).
Handler(name) ==
    CASE name = "list_directories" -> "list_directories"
      [] name = "read_txt" -> "read_txt"
      [] name = "read_word_document" -> "read_word_document"
      [] name = "read_pdf" -> "read_pdf"
      [] name = "write_file" -> "write_file"
      [] OTHER -> ""

\* The keys write_file takes from its arguments.
RequiredKeys == {"file_name", "file_path", "content"}

\* The four texts write_file returns, by what they say.
WriteSuccess == "Success"
WriteMissingArgument == "MissingArgument"
WritePermissionDenied == "PermissionDenied"
WriteFailure == "WriteFailure"

\* validate_path: the absolute path, accepted when it is lexically under the
\* hard-coded root.
validate_path(wd, file_path) ==
    LET path == PathAbsolute(wd, file_path)
    IN  [ok |-> IsRelativeTo(path, HardRoot), path |-> path]

\* f"{validated_path}.{uuid4().hex}.tmp": the suffix is appended to the text of
\* the directory's path, so it lands on the path's last segment.
TempName(validated_path, u) ==
    [validated_path EXCEPT ![Len(validated_path)] = @ \o "." \o ToString(u) \o ".tmp"]

\* f"{validated_path}\\{file_name}"
FinalPath(validated_path, file_name) == validated_path \o file_name

(***************************************************************************)
(* The requests the model issues and the file systems it starts from.      *)
(***************************************************************************)
\* Contents: plain text, text with a line feed, and text with the Windows
\* line ending.
Contents == { <<"a">>, <<"a", "LF">>, <<"CR", "LF">> }
OldContent == <<"o", "l", "d">>

FileNames == {<<"x.txt">>, <<"..", "x.txt">>}
FilePaths ==
    { HardRoot,
      HardRoot \o <<"sub">>,
      HardRoot \o <<"..", "other">>,
      <<"F:", "data">>,
      <<"sub">> }

Restrict(f, K) == [k \in K |-> f[k]]
NoArgs == Restrict([file_path |-> <<>>], {})

WriteRequests ==
    { [name |-> "write_file",
       args |-> Restrict([file_name |-> n, file_path |-> d, content |-> c], K)] :
        n \in FileNames, d \in FilePaths, c \in Contents, K \in SUBSET RequiredKeys }

ReadRequests ==
    { [name |-> t, args |-> a] :
        t \in {"list_directories", "read_txt", "read_word_document", "read_pdf",
               "list_tools", "delete_everything"},
        a \in {NoArgs, [file_path |-> HardRoot \o <<"sub", "x.txt">>],
               [file_path |-> <<"F:", "other", "x.txt">>]} }

Requests == WriteRequests \cup ReadRequests

\* Two writers of one final path.
ConcRequests ==
    { [name |-> "write_file",
       args |-> [file_name |-> <<"x.txt">>, file_path |-> d, content |-> c]] :
        d \in {HardRoot \o <<"sub">>}, c \in {<<"a">>, <<"b", "LF">>} }

BaseDirs ==
    { <<"F:">>, HardRoot, HardRoot \o <<"sub">>, <<"F:", "other">>, <<"F:", "data">> }

Targets ==
    { HardRoot \o <<"x.txt">>, HardRoot \o <<"sub", "x.txt">>, <<"F:", "other", "x.txt">> }

\* Directories only; or every target holding the old content, writable or
\* read-only.
InitialFs ==
    { [q \in BaseDirs |-> Dir] } \cup
    { [q \in BaseDirs \cup Targets |->
          IF q \in BaseDirs THEN Dir ELSE File(OldContent, r)] : r \in BOOLEAN }

Idle(f) ==
    [pc |-> "idle", calls |-> 0, name |-> "", args |-> NoArgs, invoked |-> <<>>,
     validated_path |-> <<>>, temp_file |-> <<>>, final_path |-> <<>>,
     exists |-> FALSE, exc |-> "", result |-> "", text |-> <<>>,
     pre |-> f, published |-> 0]

NotObserved == <<"<none>">>

\* __main__: allowed_directories = [os.path.abspath(d) for d in args.allowed_dirs]
Startup(wd, allowed_dirs) == {os_path_abspath(wd, d) : d \in allowed_dirs}

InitWith(contexts) ==
    /\ fs \in InitialFs
    /\ cwd \in {HardRoot, <<"F:", "other">>}
    /\ \E dirs \in {{HardRoot}, {<<"F:", "data">>}} :
          allowed_directories = Startup(cwd, dirs)
    /\ uuidCtr = 0
    /\ proc = [p \in contexts |-> Idle(fs)]
    /\ observed = NotObserved

Init == InitWith({1})

(***************************************************************************)
(* dispatch and the read-only handlers.                                    *)
(***************************************************************************)
Goto(p, r) == proc' = [proc EXCEPT ![p] = r]

\* dispatch(name, args): routes the call to its handler, or raises for a name
\* the match does not list.
Dispatch(p, reqs) ==
    /\ proc[p].pc = "idle"
    /\ proc[p].calls < MaxCalls
    /\ \E r \in reqs :
          LET h == Handler(r.name)
          IN  Goto(p, [Idle(fs) EXCEPT
                        !.calls = proc[p].calls + 1,
                        !.name = r.name,
                        !.args = r.args,
                        !.invoked = IF h = "" THEN <<>> ELSE <<h>>,
                        !.pc = IF h = "" THEN "done"
                               ELSE IF h = "write_file" THEN "wf_extract"
                               ELSE "ro_handler",
                        !.result = IF h = "" THEN "UnknownTool" ELSE ""])
    /\ observed' = NotObserved
    /\ UNCHANGED <<fs, cwd, allowed_directories, uuidCtr>>

\* list_directories, read_txt, read_word_document, read_pdf: they read the
\* path they are given (arguments.get(key, "")), change nothing, and raise
\* when the file cannot be read.  Only read_txt's text is modelled; the
\* document parsers' output is opaque.
RunReadHandler(p) ==
    LET me == proc[p]
        path == IF "file_path" \in DOMAIN me.args THEN me.args.file_path ELSE <<>>
        loc == os_path_abspath(cwd, path)
    IN  /\ me.pc = "ro_handler"
        /\ Goto(p, IF Head(me.invoked) = "list_directories"
                     THEN [me EXCEPT !.pc = "done", !.result = "Text"]
                   ELSE IF IsFile(fs, loc)
                     THEN [me EXCEPT !.pc = "done", !.result = "Text",
                                     !.text = IF Head(me.invoked) = "read_txt"
                                              THEN ReadText(fs[loc].data) ELSE <<>>]
                   ELSE [me EXCEPT !.pc = "done", !.result = "ReadFailure"])
        /\ UNCHANGED <<fs, cwd, allowed_directories, uuidCtr, observed>>

\* dispatch returns the handler's result (or its exception) to the caller; the
\* call's locals are gone.
Return(p) ==
    /\ proc[p].pc = "done"
    /\ Goto(p, [Idle(fs) EXCEPT !.calls = proc[p].calls])
    /\ observed' = NotObserved
    /\ UNCHANGED <<fs, cwd, allowed_directories, uuidCtr>>

(***************************************************************************)
(* write_file, one action per step between two points where the coroutine  *)
(* can be suspended or fail.                                               *)
(***************************************************************************)
Raise(p, e) == Goto(p, [proc[p] EXCEPT !.pc = "wf_except", !.exc = e])

\* The faults the operating system can raise at an I/O step whatever the
\* state of the modelled files (a full disk, an access-control entry, a file
\* held open by another program).
IOFaults == {"OSError", "PermissionError"}

\* Step 1: arguments["file_name"], ["file_path"], ["content"].
Extract(p) ==
    /\ proc[p].pc = "wf_extract"
    /\ IF RequiredKeys \subseteq DOMAIN proc[p].args
       THEN Goto(p, [proc[p] EXCEPT !.pc = "wf_validate"])
       ELSE Raise(p, "KeyError")
    /\ UNCHANGED <<fs, cwd, allowed_directories, uuidCtr, observed>>

\* Step 2: validated_path = await validate_path(file_path).
Validate(p) ==
    /\ proc[p].pc = "wf_validate"
    /\ LET v == validate_path(cwd, proc[p].args.file_path)
       IN  IF v.ok
           THEN Goto(p, [proc[p] EXCEPT !.pc = "wf_mktemp", !.validated_path = v.path])
           ELSE Raise(p, "PermissionError")
    /\ UNCHANGED <<fs, cwd, allowed_directories, uuidCtr, observed>>

\* Step 3: the scratch file's name, from a fresh uuid4().
MakeTemp(p) ==
    /\ proc[p].pc = "wf_mktemp"
    /\ uuidCtr' = uuidCtr + 1
    /\ Goto(p, [proc[p] EXCEPT !.pc = "wf_open",
                               !.temp_file = TempName(proc[p].validated_path, uuidCtr')])
    /\ UNCHANGED <<fs, cwd, allowed_directories, observed>>

\* uuid4() fails (no source of randomness): temp_file stays unbound.
MakeTempFault(p) ==
    /\ proc[p].pc = "wf_mktemp"
    /\ Raise(p, "OSError")
    /\ UNCHANGED <<fs, cwd, allowed_directories, uuidCtr, observed>>

\* aio_open(temp_file, "w"): creates the empty scratch file; its directory
\* must exist.
OpenScratch(p) ==
    LET loc == Resolve(proc[p].temp_file)
    IN  /\ proc[p].pc = "wf_open"
        /\ IF IsDir(fs, Parent(loc))
           THEN /\ fs' = Put(fs, loc, File(<<>>, FALSE))
                /\ Goto(p, [proc[p] EXCEPT !.pc = "wf_write"])
           ELSE /\ Raise(p, "FileNotFoundError")
                /\ UNCHANGED fs
        /\ UNCHANGED <<cwd, allowed_directories, uuidCtr, observed>>

OpenFault(p) ==
    /\ proc[p].pc = "wf_open"
    /\ \E e \in IOFaults : Raise(p, e)
    /\ UNCHANGED <<fs, cwd, allowed_directories, uuidCtr, observed>>

\* What the scratch file holds once content is written in full.
Image(content) == TextWrite(content)

\* await f.write(content): the characters reach the scratch file one after
\* the other.
WriteChunk(p) ==
    LET loc == Resolve(proc[p].temp_file)
        image == Image(proc[p].args.content)
        n == Len(fs[loc].data)
    IN  /\ proc[p].pc = "wf_write"
        /\ n < Len(image)
        /\ fs' = Put(fs, loc, File(Append(fs[loc].data, image[n + 1]), FALSE))
        /\ UNCHANGED <<cwd, allowed_directories, uuidCtr, proc, observed>>

\* A fault while writing: the with block closes the file and the exception
\* goes on to the handlers.
WriteFault(p) ==
    /\ proc[p].pc = "wf_write"
    /\ \E e \in IOFaults : Raise(p, e)
    /\ UNCHANGED <<fs, cwd, allowed_directories, uuidCtr, observed>>

\* The with block ends: the scratch file is complete and closed; final_path
\* is built.
CloseScratch(p) ==
    LET loc == Resolve(proc[p].temp_file)
    IN  /\ proc[p].pc = "wf_write"
        /\ Len(fs[loc].data) = Len(Image(proc[p].args.content))
        /\ Goto(p, [proc[p] EXCEPT
                      !.pc = "wf_check",
                      !.final_path = FinalPath(proc[p].validated_path,
                                               proc[p].args.file_name)])
        /\ UNCHANGED <<fs, cwd, allowed_directories, uuidCtr, observed>>

\* Step 4, the test: os.path.exists(final_path).
CheckExists(p) ==
    /\ proc[p].pc = "wf_check"
    /\ Goto(p, [proc[p] EXCEPT !.pc = "wf_publish",
                               !.exists = os_path_exists(fs, proc[p].final_path)])
    /\ UNCHANGED <<fs, cwd, allowed_directories, uuidCtr, observed>>

\* The end of a publishing step: success is returned, or the step's exception
\* is raised.  published numbers the calls in the order they published.
Published(p, r) ==
    /\ fs' = r.fs
    /\ IF r.exc = ""
       THEN Goto(p, [proc[p] EXCEPT
                      !.pc = "done", !.result = WriteSuccess,
                      !.published =
                          1 + Cardinality({q \in DOMAIN proc : proc[q].published > 0})])
       ELSE Raise(p, r.exc)

\* Step 4, the file existed: await replace(temp_file, final_path).
PublishReplace(p) ==
    /\ proc[p].pc = "wf_publish"
    /\ proc[p].exists
    /\ Published(p, os_replace(fs, proc[p].temp_file, proc[p].final_path))
    /\ UNCHANGED <<cwd, allowed_directories, uuidCtr, observed>>

\* Step 4, it did not: await rename(temp_file, final_path).
PublishRename(p) ==
    /\ proc[p].pc = "wf_publish"
    /\ ~proc[p].exists
    /\ Published(p, os_rename(fs, proc[p].temp_file, proc[p].final_path))
    /\ UNCHANGED <<cwd, allowed_directories, uuidCtr, observed>>

PublishFault(p) ==
    /\ proc[p].pc = "wf_publish"
    /\ \E e \in IOFaults : Raise(p, e)
    /\ UNCHANGED <<fs, cwd, allowed_directories, uuidCtr, observed>>

\* write_file without its except KeyError clause: the KeyError falls through to
\* except Exception.
ExceptKeyError_fallthrough(p) ==
    /\ proc[p].pc = "wf_except"
    /\ proc[p].exc = "KeyError"
    /\ Goto(p, [proc[p] EXCEPT !.pc = "done", !.result = WriteFailure])
    /\ UNCHANGED <<fs, cwd, allowed_directories, uuidCtr, observed>>

\* except KeyError
ExceptKeyError(p) ==
    /\ proc[p].pc = "wf_except"
    /\ proc[p].exc = "KeyError"
    /\ Goto(p, [proc[p] EXCEPT !.pc = "done", !.result = WriteMissingArgument])
    /\ UNCHANGED <<fs, cwd, allowed_directories, uuidCtr, observed>>

\* except PermissionError: returns at once, whoever raised it.
ExceptPermissionError(p) ==
    /\ proc[p].pc = "wf_except"
    /\ proc[p].exc = "PermissionError"
    /\ Goto(p, [proc[p] EXCEPT !.pc = "done", !.result = WritePermissionDenied])
    /\ UNCHANGED <<fs, cwd, allowed_directories, uuidCtr, observed>>

\* The scratch file the last handler removes: temp_file when it is bound and
\* exists (an unbound temp_file raises inside the inner try, which swallows it).
Cleanup(f, temp_file) ==
    IF temp_file # <<>> /\ os_path_exists(f, temp_file)
    THEN Drop(f, Resolve(temp_file))
    ELSE f

\* A cleanup that removes final_path where it should remove temp_file.
ExceptException_removing_final(p) ==
    /\ proc[p].pc = "wf_except"
    /\ proc[p].exc \notin {"KeyError", "PermissionError"}
    /\ fs' = Cleanup(fs, proc[p].final_path)
    /\ Goto(p, [proc[p] EXCEPT !.pc = "done", !.result = WriteFailure])
    /\ UNCHANGED <<cwd, allowed_directories, uuidCtr, observed>>

\* except Exception: removes the scratch file, then returns the failure text.
ExceptException(p) ==
    /\ proc[p].pc = "wf_except"
    /\ proc[p].exc \notin {"KeyError", "PermissionError"}
    /\ fs' = Cleanup(fs, proc[p].temp_file)
    /\ Goto(p, [proc[p] EXCEPT !.pc = "done", !.result = WriteFailure])
    /\ UNCHANGED <<cwd, allowed_directories, uuidCtr, observed>>

(***************************************************************************)
(* The environment: a kill of the server in mid-call, and an outside       *)
(* reader of the final path.                                               *)
(***************************************************************************)
WriteStages ==
    {"wf_extract", "wf_validate", "wf_mktemp", "wf_open", "wf_write", "wf_check",
     "wf_publish", "wf_except"}

Crash(p) ==
    /\ proc[p].pc \in WriteStages
    /\ Goto(p, [proc[p] EXCEPT !.pc = "crashed"])
    /\ UNCHANGED <<fs, cwd, allowed_directories, uuidCtr, observed>>

\* The final path of p's write_file call, as the call's arguments fix it.
HasTarget(p) ==
    /\ proc[p].name = "write_file"
    /\ RequiredKeys \subseteq DOMAIN proc[p].args

Target(p) ==
    Resolve(FinalPath(PathAbsolute(cwd, proc[p].args.file_path),
                      proc[p].args.file_name))

Observe(p) ==
    /\ HasTarget(p)
    /\ observed' = ContentAt(fs, Target(p))
    /\ observed' # observed
    /\ UNCHANGED <<fs, cwd, allowed_directories, uuidCtr, proc>>

(***************************************************************************)
(* Specifications.  Spec: one call context, calls one after the other,     *)
(* with faults, kills and an outside reader.  SpecConc: two call contexts  *)
(* writing one final path, their steps interleaved, in a fault-free        *)
(* environment.                                                            *)
(***************************************************************************)
Next ==
    \/ Dispatch(1, Requests)
    \/ RunReadHandler(1)
    \/ Return(1)
    \/ Extract(1)
    \/ Validate(1)
    \/ MakeTemp(1)
    \/ MakeTempFault(1)
    \/ OpenScratch(1)
    \/ OpenFault(1)
    \/ WriteChunk(1)
    \/ WriteFault(1)
    \/ CloseScratch(1)
    \/ CheckExists(1)
    \/ PublishReplace(1)
    \/ PublishRename(1)
    \/ PublishFault(1)
    \/ ExceptKeyError(1)
    \/ ExceptPermissionError(1)
    \/ ExceptException(1)
    \/ Crash(1)
    \/ Observe(1)

Spec == Init /\ [][Next]_vars

ConcStep(p) ==
    \/ Dispatch(p, ConcRequests)
    \/ Extract(p)
    \/ Validate(p)
    \/ MakeTemp(p)
    \/ OpenScratch(p)
    \/ WriteChunk(p)
    \/ CloseScratch(p)
    \/ CheckExists(p)
    \/ PublishReplace(p)
    \/ PublishRename(p)
    \/ ExceptException(p)
    \/ Return(p)

NextConc == \E p \in Procs : ConcStep(p)

InitConc ==
    /\ InitWith(Procs)
    /\ \A loc \in DOMAIN fs : ~fs[loc].ro

SpecConc == InitConc /\ [][NextConc]_vars

(***************************************************************************)
(* The claims.                                                             *)
(***************************************************************************)
Accepted(p) == proc[p].validated_path # <<>>

Returned(p) == proc[p].pc = "done" /\ proc[p].name = "write_file"

\* The locations at which two file systems differ.
Changed(f, g) ==
    { loc \in DOMAIN f \cup DOMAIN g :
        loc \notin DOMAIN f \/ loc \notin DOMAIN g \/ f[loc] # g[loc] }

\* C1.  Atomicity of write_file: in every state of a write_file call, a state
\* after a kill at any step included, the final path holds either exactly what
\* it held before the call (or nothing, if nothing was there) or exactly the
\* complete text the call wrote to its scratch file; an outside reader has
\* never seen anything else; and until the call's rename/replace has happened
\* the final path holds what it held before the call.
C1_Atomicity ==
    HasTarget(1) =>
        LET old == ContentAt(proc[1].pre, Target(1))
            new == Image(proc[1].args.content)
        IN  /\ ContentAt(fs, Target(1)) \in {old, new}
            /\ observed \in {NotObserved, old, new}
            /\ proc[1].published = 0 => ContentAt(fs, Target(1)) = old
            /\ proc[1].published = 0 => observed \in {NotObserved, old}

\* A kill in the middle of writing the scratch file, over an existing final
\* path that a reader has looked at.
C1_Witness ==
    /\ HasTarget(1)
    /\ proc[1].pc = "crashed"
    /\ proc[1].temp_file # <<>>
    /\ IsFile(fs, Resolve(proc[1].temp_file))
    /\ Len(fs[Resolve(proc[1].temp_file)].data) \in
           1..(Len(Image(proc[1].args.content)) - 1)
    /\ ContentAt(fs, Target(1)) = OldContent
    /\ observed = OldContent

\* C2.  Containment of validate_path: a path is accepted exactly when its
\* resolved location (absolute, ".." folded) is an allowed root configured at
\* start-up or lies under one, and the path returned is that resolved location.
C2_Containment ==
    (proc[1].name = "write_file" /\ "file_path" \in DOMAIN proc[1].args) =>
        LET r == os_path_abspath(cwd, proc[1].args.file_path)
            inside == \E root \in allowed_directories : IsRelativeTo(r, root)
            rejected == /\ RequiredKeys \subseteq DOMAIN proc[1].args
                        /\ ~Accepted(1)
                        /\ proc[1].exc = "PermissionError"
        IN  /\ Accepted(1) => inside /\ proc[1].validated_path = r
            /\ rejected => ~inside

\* C3.  Success round-trip and overwrite: when write_file returns the success
\* result, the final path holds exactly the content it was given (as the bytes
\* on disk, or as the text a reader gets back), whether the final path was new
\* or held other content before.
C3_RoundTrip ==
    (Returned(1) /\ proc[1].result = WriteSuccess) =>
        \/ ContentAt(fs, Target(1)) = proc[1].args.content
        \/ ReadText(ContentAt(fs, Target(1))) = proc[1].args.content

\* C4.  No residual scratch file: once write_file has returned, with whatever
\* result, the scratch file of the call does not exist.
C4_NoResidualScratch ==
    (Returned(1) /\ proc[1].temp_file # <<>>) =>
        ~os_path_exists(fs, proc[1].temp_file)

\* C5.  Failed write leaves the final path untouched: when write_file returns
\* after an exception, its result is a failure result, and whenever it returns
\* a failure result every entry that existed before the call is unchanged and
\* the final path exists exactly if it existed before.
C5_FailedWriteUntouched ==
    Returned(1) =>
        /\ proc[1].exc # "" =>
               proc[1].result \in
                   {WriteMissingArgument, WritePermissionDenied, WriteFailure}
        /\ proc[1].result # WriteSuccess =>
               /\ \A loc \in DOMAIN proc[1].pre :
                      loc \in DOMAIN fs /\ fs[loc] = proc[1].pre[loc]
               /\ HasTarget(1) =>
                      (Target(1) \in DOMAIN fs <=> Target(1) \in DOMAIN proc[1].pre)

\* A failed replace over existing content: the call returned the failure
\* result after the publishing step raised.
C5_Witness ==
    /\ Returned(1)
    /\ proc[1].result = WriteFailure
    /\ proc[1].final_path # <<>>
    /\ proc[1].exists
    /\ ContentAt(fs, Target(1)) = OldContent

\* C6.  Missing argument: a write_file call that lacks any of file_name,
\* file_path, content never changes the file system and never names a scratch
\* file, and what it returns is the missing-argument result.
C6_MissingArgument ==
    (proc[1].name = "write_file"
        /\ ~({"file_name", "file_path", "content"} \subseteq DOMAIN proc[1].args)) =>
        /\ fs = proc[1].pre
        /\ proc[1].temp_file = <<>>
        /\ proc[1].pc = "done" => proc[1].result = WriteMissingArgument

\* The call with file_path alone has returned.
C6_Witness ==
    /\ Returned(1)
    /\ DOMAIN proc[1].args = {"file_path"}
    /\ proc[1].result = WriteMissingArgument

C8_ErrorTaxonomy ==
    Returned(1) =>
        LET missing == ~(RequiredKeys \subseteq DOMAIN proc[1].args)
            refused == ~missing /\ ~validate_path(cwd, proc[1].args.file_path).ok
        IN  /\ proc[1].result = WriteMissingArgument <=> missing
            /\ proc[1].result = WritePermissionDenied <=> refused
            /\ (~missing /\ ~refused /\ proc[1].exc # "") =>
                   proc[1].result = WriteFailure

\* C9.  Concurrent writers of one final path: they use distinct scratch files,
\* and once both have returned, both have succeeded, no scratch file is left,
\* and the final path holds exactly what the last of them to publish wrote.
C9_ConcurrentWriters ==
    (HasTarget(1) /\ HasTarget(2) /\ Target(1) = Target(2)) =>
        /\ (proc[1].temp_file # <<>> /\ proc[2].temp_file # <<>>) =>
               proc[1].temp_file # proc[2].temp_file
        /\ (Returned(1) /\ Returned(2)) =>
               /\ proc[1].result = WriteSuccess
               /\ proc[2].result = WriteSuccess
               /\ ~os_path_exists(fs, proc[1].temp_file)
               /\ ~os_path_exists(fs, proc[2].temp_file)
               /\ \E last \in Procs :
                      /\ \A q \in Procs : proc[q].published <= proc[last].published
                      /\ ContentAt(fs, Target(1)) = Image(proc[last].args.content)

\* C10.  write_file mutates only paths inside the validated directory: every
\* location a call has created, replaced or removed lies under the directory
\* validate_path accepted, and under the root.
C10_MutationsInsideValidatedDir ==
    (proc[1].name = "write_file" /\ Accepted(1)) =>
        \A loc \in Changed(proc[1].pre, fs) :
            /\ loc # Resolve(proc[1].validated_path)
            /\ IsRelativeTo(loc, Resolve(proc[1].validated_path))
            /\ IsRelativeTo(loc, HardRoot)

====
